---------------------------- MODULE Spec2Model ----------------------------
(***************************************************************************)
(* A model of the Deepr query parser, packages/runtime/src/parser.js.      *)
(*                                                                         *)
(* JavaScript values are records with a tag t.  A string (an object key)   *)
(* is the sequence of its characters, so that split, endsWith and slice    *)
(* are computed on the characters.  parseQuery is synchronous: one call is *)
(* one action, and the only state the module keeps between two calls is    *)
(* the memoized list _builtInKeys.                                         *)
(***************************************************************************)
EXTENDS Integers, Sequences, FiniteSets, TLC

VARIABLES
    _builtInKeys,   \* the module-level memo of getBuiltInKeys (parser.js:176)
    query,          \* the first argument of the call under study
    options,        \* its second argument
    outcome,        \* what the last call of parseQuery(query, options) did
    memoized,       \* whether _builtInKeys was set when that call began
    key,            \* the argument of a direct call of parseKey
    parsedKey       \* what parseKey(key) did

vars == <<_builtInKeys, query, options, outcome, memoized, key, parsedKey>>

(***************************************************************************)
(* Bounds of the model.                                                    *)
(***************************************************************************)
\* The weight of the arguments of a call.
MaxWeight == 6
\* The length of the keys given to parseKey directly.
MaxKeyLen == 4

(***************************************************************************)
(* JavaScript values.                                                      *)
(***************************************************************************)
Undefined == [t |-> "undefined"]
Null == [t |-> "null"]
JsTrue == [t |-> "true"]
JsFalse == [t |-> "false"]
JsNumber == [t |-> "number"]
Str(chars) == [t |-> "string", chars |-> chars]
JsString == Str(<<"s">>)
None == [t |-> "none"]

Arr(items) == [t |-> "array", items |-> items]
Obj(entries) == [t |-> "object", entries |-> entries]
RegExpPrefix(prefix) == [t |-> "regexp", prefix |-> prefix]

\* Array.isArray(v)
IsArray(v) == v.t = "array"

\* typeof v
typeof(v) ==
    CASE v.t = "undefined" -> "undefined"
      [] v.t \in {"true", "false"} -> "boolean"
      [] v.t = "number" -> "number"
      [] v.t = "string" -> "string"
      [] OTHER -> "object"

\* JSON.stringify(v) of a primitive, as the error message shows it; the
\* number of the model is 0.
JSONstringify(v) ==
    CASE v.t = "undefined" -> <<"u", "n", "d", "e", "f", "i", "n", "e", "d">>
      [] v.t = "null" -> <<"n", "u", "l", "l">>
      [] v.t = "true" -> <<"t", "r", "u", "e">>
      [] v.t = "false" -> <<"f", "a", "l", "s", "e">>
      [] v.t = "number" -> <<"0">>
      [] v.t = "string" -> <<"\"">> \o v.chars \o <<"\"">>

\* The key of index i (from 0) of an array, as Object.entries names it.
Digits == <<"0", "1", "2", "3", "4", "5", "6", "7", "8", "9">>
IndexKey(i) == <<Digits[i + 1]>>

\* Object.entries(v): the own enumerable properties in iteration order; of an
\* array, its indices in ascending order.
ObjectEntries(v) ==
    IF IsArray(v)
    THEN [i \in 1..Len(v.items) |-> [key |-> IndexKey(i - 1), value |-> v.items[i]]]
    ELSE v.entries

(***************************************************************************)
(* Strings.                                                                *)
(***************************************************************************)
\* s.endsWith(c) for a one-character c
endsWith(s, c) == Len(s) > 0 /\ s[Len(s)] = c

\* s.slice(0, -1)
sliceLast(s) == IF Len(s) = 0 THEN s ELSE SubSeq(s, 1, Len(s) - 1)

\* The first index at which "=>" occurs in s from index i on, 0 when none.
RECURSIVE indexOfArrow(_, _)
indexOfArrow(s, i) ==
    IF i + 1 > Len(s) THEN 0
    ELSE IF s[i] = "=" /\ s[i + 1] = ">" THEN i
    ELSE indexOfArrow(s, i + 1)

\* s.split('=>')
RECURSIVE split(_)
split(s) ==
    LET i == indexOfArrow(s, 1)
    IN  IF i = 0 THEN <<s>>
        ELSE <<SubSeq(s, 1, i - 1)>> \o split(SubSeq(s, i + 2, Len(s)))


(***************************************************************************)
(* What a call does: it returns a value or throws an error.                *)
(***************************************************************************)
Error(message, detail) == [message |-> message, detail |-> detail]

MissingQuery == Error("'query' parameter is missing", <<>>)
InvalidArray == Error("An array should contain exactly one item", <<>>)
InvalidQuery(q) == Error("Invalid query found: ", JSONstringify(q))
MultipleEmptyTargets == Error("Multiple empty targets found at the same level", <<>>)
ConflictingTargets == Error("Empty and non-empty targets found at the same level", <<>>)
InvalidKey(k) == Error("Invalid key found: ", k)

(***************************************************************************)
(* parseSourceKey and parseKey.                                            *)
(***************************************************************************)
\* parseSourceKey that strips every trailing '?'.
RECURSIVE parseSourceKeyAll(_)
parseSourceKeyAll(sourceKey) ==
    IF endsWith(sourceKey, "?")
    THEN [sourceKey |-> parseSourceKeyAll(sliceLast(sourceKey)).sourceKey,
          isOptional |-> JsTrue]
    ELSE [sourceKey |-> sourceKey, isOptional |-> Undefined]

parseSourceKey(sourceKey) ==
    IF endsWith(sourceKey, "?")
    THEN [sourceKey |-> sliceLast(sourceKey), isOptional |-> JsTrue]
    ELSE [sourceKey |-> sourceKey, isOptional |-> Undefined]

parseKey(k) ==
    LET parts == split(k)
        src == parseSourceKey(parts[1])
    IN  IF Len(parts) = 1
        THEN [t |-> "return", sourceKey |-> src.sourceKey,
              targetKey |-> src.sourceKey, isOptional |-> src.isOptional]
        ELSE IF Len(parts) = 2
        THEN [t |-> "return", sourceKey |-> src.sourceKey,
              targetKey |-> parts[2], isOptional |-> src.isOptional]
        ELSE [t |-> "throw", error |-> InvalidKey(k)]

(***************************************************************************)
(* testKey: a pattern is a string or a regular expression.  The regular    *)
(* expressions of the model are /^prefix/ without the g or y flag, so      *)
(* that test() reads nothing but the key.                                  *)
(***************************************************************************)
RegExpTest(pattern, k) ==
    /\ Len(pattern.prefix) <= Len(k)
    /\ SubSeq(k, 1, Len(pattern.prefix)) = pattern.prefix

testKey(k, patterns) ==
    \E i \in 1..Len(patterns.items) :
        LET pattern == patterns.items[i]
        IN  IF typeof(pattern) = "string"
            THEN pattern.chars = k
            ELSE RegExpTest(pattern, k)

(***************************************************************************)
(* The objects of the host that getBuiltInKeys walks: for each, the result *)
(* of Object.getOwnPropertyNames and of Object.getPrototypeOf (strict-mode *)
(* code on V8).                                                            *)
(***************************************************************************)
KeyName == <<"n", "a", "m", "e">>
KeyLength == <<"l", "e", "n", "g", "t", "h">>
KeyProto == <<"_", "_", "p", "r", "o", "t", "o", "_", "_">>

ObjectPrototypeNames ==
    << <<"c", "o", "n", "s", "t", "r", "u", "c", "t", "o", "r">>,
       <<"_", "_", "d", "e", "f", "i", "n", "e", "G", "e", "t", "t", "e", "r", "_", "_">>,
       <<"_", "_", "d", "e", "f", "i", "n", "e", "S", "e", "t", "t", "e", "r", "_", "_">>,
       <<"h", "a", "s", "O", "w", "n", "P", "r", "o", "p", "e", "r", "t", "y">>,
       <<"_", "_", "l", "o", "o", "k", "u", "p", "G", "e", "t", "t", "e", "r", "_", "_">>,
       <<"_", "_", "l", "o", "o", "k", "u", "p", "S", "e", "t", "t", "e", "r", "_", "_">>,
       <<"i", "s", "P", "r", "o", "t", "o", "t", "y", "p", "e", "O", "f">>,
       <<"p", "r", "o", "p", "e", "r", "t", "y", "I", "s", "E", "n", "u", "m", "e", "r", "a", "b", "l", "e">>,
       <<"t", "o", "S", "t", "r", "i", "n", "g">>,
       <<"v", "a", "l", "u", "e", "O", "f">>,
       <<"_", "_", "p", "r", "o", "t", "o", "_", "_">>,
       <<"t", "o", "L", "o", "c", "a", "l", "e", "S", "t", "r", "i", "n", "g">> >>
FunctionPrototypeNames ==
    << <<"l", "e", "n", "g", "t", "h">>,
       <<"n", "a", "m", "e">>,
       <<"a", "r", "g", "u", "m", "e", "n", "t", "s">>,
       <<"c", "a", "l", "l", "e", "r">>,
       <<"c", "o", "n", "s", "t", "r", "u", "c", "t", "o", "r">>,
       <<"a", "p", "p", "l", "y">>,
       <<"b", "i", "n", "d">>,
       <<"c", "a", "l", "l">>,
       <<"t", "o", "S", "t", "r", "i", "n", "g">> >>
FunctionOwnNames ==
    << <<"l", "e", "n", "g", "t", "h">>,
       <<"n", "a", "m", "e">>,
       <<"p", "r", "o", "t", "o", "t", "y", "p", "e">> >>
ClassPrototypeNames ==
    << <<"c", "o", "n", "s", "t", "r", "u", "c", "t", "o", "r">> >>
HostObjects ==
    [o \in {"obj", "Obj.prototype", "Object.prototype", "func",
            "Function.prototype", "Obj"} |->
        CASE o = "obj" -> [names |-> <<>>, proto |-> "Obj.prototype"]
          [] o = "Obj.prototype" ->
                [names |-> ClassPrototypeNames, proto |-> "Object.prototype"]
          [] o = "Object.prototype" ->
                [names |-> ObjectPrototypeNames, proto |-> "null"]
          [] o = "func" ->
                [names |-> FunctionOwnNames, proto |-> "Function.prototype"]
          [] o = "Function.prototype" ->
                [names |-> FunctionPrototypeNames, proto |-> "Object.prototype"]
          [] o = "Obj" ->
                [names |-> FunctionOwnNames, proto |-> "Function.prototype"]]

\* array.indexOf(k) !== -1
Includes(array, k) == \E i \in 1..Len(array) : array[i] = k

\* The inner for loop of _addKeys over the names of one object.
RECURSIVE addOwnKeys(_, _, _)
addOwnKeys(array, names, i) ==
    IF i > Len(names) THEN array
    ELSE IF ~(names[i] = KeyName \/ names[i] = KeyLength \/ Includes(array, names[i]))
    THEN addOwnKeys(Append(array, names[i]), names, i + 1)
    ELSE addOwnKeys(array, names, i + 1)

RECURSIVE _addKeys(_, _)
_addKeys(array, object) ==
    IF object = "null" THEN array
    ELSE _addKeys(addOwnKeys(array, HostObjects[object].names, 1),
                  HostObjects[object].proto)

\* Lines 179-185: the list that the first call of getBuiltInKeys builds.
computeBuiltInKeys == _addKeys(_addKeys(_addKeys(<<>>, "obj"), "func"), "Obj")

\* getBuiltInKeys that memoizes an empty list.
getBuiltInKeysLost(memo) ==
    IF memo = Undefined
    THEN [keys |-> computeBuiltInKeys, memo |-> Arr(<<>>)]
    ELSE [keys |-> memo.items, memo |-> memo]

\* getBuiltInKeys(): the list it returns and the memo it leaves.
getBuiltInKeys(memo) ==
    IF memo = Undefined
    THEN [keys |-> computeBuiltInKeys, memo |-> Arr(computeBuiltInKeys)]
    ELSE [keys |-> memo.items, memo |-> memo]

(***************************************************************************)
(* Expressions.  A property that is absent reads as undefined.             *)
(***************************************************************************)
\* const expression = {sourceKey, isOptional}
NewExpression(sourceKey, isOptional) ==
    [t |-> "expression", sourceKey |-> sourceKey, isOptional |-> isOptional,
     useCollectionElements |-> Undefined, params |-> Undefined,
     nextExpression |-> Undefined, nestedExpressions |-> Undefined]

IsExpressionValue(v) == v.t = "expression"

\* The object {} that holds the nested expressions: its own properties, and
\* its prototype.
ObjectPrototype == [t |-> "Object.prototype"]
EmptyObject == [t |-> "plain", props |-> <<>>, proto |-> ObjectPrototype]

\* SetProperty that keeps the value a property has.
SetPropertyOnce(object, k, value) ==
    IF k = KeyProto
    THEN [object EXCEPT !.proto = IF IsExpressionValue(@) THEN @ ELSE value]
    ELSE [object EXCEPT !.props = @ @@ (k :> value)]

\* object[k] = value, value an object: the key __proto__ is the setter that
\* Object.prototype provides, which sets the prototype and adds no property.
SetProperty(object, k, value) ==
    IF k = KeyProto
    THEN [object EXCEPT !.proto = value]
    ELSE [object EXCEPT !.props = (k :> value) @@ @]

\* The truth value of v in a condition.
Truthy(v) ==
    CASE v.t \in {"undefined", "null", "false", "number"} -> FALSE
      [] v.t = "string" -> v.chars # <<>>
      [] OTHER -> TRUE

Return(value, memo) == [t |-> "return", value |-> value, memo |-> memo]
Throw(error, memo) == [t |-> "throw", error |-> error, memo |-> memo]

(***************************************************************************)
(* _parseQuery.  memo is the value of _builtInKeys when the call starts;   *)
(* what the call does carries the value it leaves.                         *)
(***************************************************************************)
KeyParams == <<"(", ")">>

\* unwrapArray that leaves useCollectionElements as it is.
unwrapArrayOnly(expression, q) ==
    IF IsArray(q)
    THEN IF Len(q.items) # 1
         THEN [ok |-> FALSE, expression |-> expression, query |-> q]
         ELSE [ok |-> TRUE, expression |-> expression, query |-> q.items[1]]
    ELSE [ok |-> TRUE, expression |-> expression, query |-> q]

\* Lines 71-77: the array that wraps a query.  ok is false when the call
\* throws; otherwise the expression and the query to go on with.
unwrapArray(expression, q) ==
    IF IsArray(q)
    THEN IF Len(q.items) # 1
         THEN [ok |-> FALSE, expression |-> expression, query |-> q]
         ELSE [ok |-> TRUE,
               expression |-> [expression EXCEPT !.useCollectionElements = JsTrue],
               query |-> q.items[1]]
    ELSE [ok |-> TRUE, expression |-> expression, query |-> q]

\* shapeOf that takes every primitive for the leaf.
shapeOfAnyPrimitive(q) ==
    IF typeof(q) # "object" THEN "leaf"
    ELSE IF q = Null THEN "invalid"
    ELSE "mapping"

\* Lines 79-85: what the query is, once unwrapped: the leaf true, a value
\* that is no query, or what the loop iterates.
shapeOf(q) ==
    IF q = JsTrue THEN "leaf"
    ELSE IF typeof(q) # "object" \/ q = Null THEN "invalid"
    ELSE "mapping"

\* skipEntry without the accept list.
skipEntryNoAccept(sourceKey, opts, builtInKeys) ==
    \/ Truthy(opts.ignoreBuiltInKeys) /\ Includes(builtInKeys, sourceKey)
    \/ testKey(sourceKey, opts.ignoreKeys)

\* Lines 98-104: whether the entry of source key sourceKey is skipped.
skipEntry(sourceKey, opts, builtInKeys) ==
    \/ Truthy(opts.ignoreBuiltInKeys) /\ Includes(builtInKeys, sourceKey)
    \/ testKey(sourceKey, opts.ignoreKeys) /\ ~testKey(sourceKey, opts.acceptKeys)

\* setParams that keeps only a value that is a query.
setParamsOfQuery(st, value) ==
    IF value # Undefined /\ shapeOf(value) # "invalid"
    THEN [st EXCEPT !.expression.params = value]
    ELSE st

\* Lines 91-94: the entry of key '()'.
setParams(st, value) == [st EXCEPT !.expression.params = value]

\* addSubexpression without its check of a second empty target.
addSubexpressionUnchecked(st, targetKey, subexpression) ==
    IF targetKey # <<>>
    THEN [ok |-> TRUE,
          st |-> [st EXCEPT !.nestedExpressions =
                     SetProperty(IF @ = Undefined THEN EmptyObject ELSE @,
                                 targetKey, subexpression)]]
    ELSE [ok |-> TRUE, st |-> [st EXCEPT !.nextExpression = subexpression]]

\* addSubexpression that makes the object of the nested expressions anew for
\* each of them.
addSubexpressionAnew(st, targetKey, subexpression) ==
    IF targetKey # <<>>
    THEN [ok |-> TRUE,
          st |-> [st EXCEPT !.nestedExpressions =
                     SetProperty(EmptyObject, targetKey, subexpression)]]
    ELSE IF Truthy(st.nextExpression)
    THEN [ok |-> FALSE, st |-> st]
    ELSE [ok |-> TRUE, st |-> [st EXCEPT !.nextExpression = subexpression]]

\* Lines 112-122: the subexpression of an entry goes to its place.  st holds
\* the locals of the loop; ok is false when the call throws.
addSubexpression(st, targetKey, subexpression) ==
    IF targetKey # <<>>
    THEN [ok |-> TRUE,
          st |-> [st EXCEPT !.nestedExpressions =
                     SetProperty(IF @ = Undefined THEN EmptyObject ELSE @,
                                 targetKey, subexpression)]]
    ELSE IF Truthy(st.nextExpression)
    THEN [ok |-> FALSE, st |-> st]
    ELSE [ok |-> TRUE, st |-> [st EXCEPT !.nextExpression = subexpression]]

\* finish without its check of the two kinds of target.
finishUnchecked(st) ==
    Return([st.expression EXCEPT
               !.nextExpression = st.nextExpression,
               !.nestedExpressions = st.nestedExpressions],
           st.memo)

\* Lines 125-136: after the loop.
finish(st) ==
    IF st.nextExpression # Undefined /\ Truthy(st.nestedExpressions)
    THEN Throw(ConflictingTargets, st.memo)
    ELSE Return([st.expression EXCEPT
                    !.nextExpression = st.nextExpression,
                    !.nestedExpressions = st.nestedExpressions],
                st.memo)

RECURSIVE _parseQuery(_, _, _, _)
RECURSIVE parseEntries(_, _, _, _)

\* Lines 90-123: the loop over Object.entries(query), from entry i on.
parseEntries(entries, i, st, opts) ==
    IF i > Len(entries) THEN finish(st)
    ELSE IF entries[i].key = KeyParams
    THEN parseEntries(entries, i + 1, setParams(st, entries[i].value), opts)
    ELSE
      LET pk == parseKey(entries[i].key)
      IN  IF pk.t = "throw" THEN Throw(pk.error, st.memo)
          ELSE
            LET b == IF Truthy(opts.ignoreBuiltInKeys)
                     THEN getBuiltInKeys(st.memo)
                     ELSE [keys |-> <<>>, memo |-> st.memo]
            IN  IF skipEntry(pk.sourceKey, opts, b.keys)
                THEN parseEntries(entries, i + 1, [st EXCEPT !.memo = b.memo], opts)
                ELSE
                  LET sub == _parseQuery(entries[i].value,
                                 [sourceKey |-> pk.sourceKey,
                                  isOptional |-> pk.isOptional],
                                 opts, b.memo)
                  IN  IF sub.t = "throw" THEN sub
                      ELSE
                        LET a == addSubexpression([st EXCEPT !.memo = sub.memo],
                                                  pk.targetKey, sub.value)
                        IN  IF a.ok
                            THEN parseEntries(entries, i + 1, a.st, opts)
                            ELSE Throw(MultipleEmptyTargets, sub.memo)

\* Lines 60-137.  ctx is the second argument: {} at the root, where sourceKey
\* takes its default ''.
_parseQuery(q, ctx, opts, memo) ==
    IF q = Undefined THEN Throw(MissingQuery, memo)
    ELSE
      LET sourceKey == IF "sourceKey" \in DOMAIN ctx THEN ctx.sourceKey ELSE <<>>
          u == unwrapArray(NewExpression(sourceKey, ctx.isOptional), q)
      IN  IF ~u.ok THEN Throw(InvalidArray, memo)
          ELSE IF shapeOf(u.query) = "leaf" THEN Return(u.expression, memo)
          ELSE IF shapeOf(u.query) = "invalid"
          THEN Throw(InvalidQuery(u.query), memo)
          ELSE parseEntries(ObjectEntries(u.query), 1,
                            [expression |-> u.expression,
                             nestedExpressions |-> Undefined,
                             nextExpression |-> Undefined,
                             memo |-> memo],
                            opts)

\* Lines 43-55: the defaults of the second argument, whose properties are
\* undefined where it has none, and the two lists.
normalizeOptions(opts) ==
    LET ignoreKeys == IF opts.ignoreKeys = Undefined THEN Arr(<<>>)
                      ELSE opts.ignoreKeys
        acceptKeys == IF opts.acceptKeys = Undefined THEN Arr(<<>>)
                      ELSE opts.acceptKeys
        ignoreBuiltInKeys == IF opts.ignoreBuiltInKeys = Undefined THEN JsTrue
                             ELSE opts.ignoreBuiltInKeys
    IN  [ignoreKeys |-> IF IsArray(ignoreKeys) THEN ignoreKeys
                        ELSE Arr(<<ignoreKeys>>),
         acceptKeys |-> IF IsArray(acceptKeys) THEN acceptKeys
                        ELSE Arr(<<acceptKeys>>),
         ignoreBuiltInKeys |-> ignoreBuiltInKeys]

\* Lines 41-58.
parseQuery(q, opts, memo) ==
    IF q = Undefined THEN Throw(MissingQuery, memo)
    ELSE _parseQuery(q, [isOptional |-> Undefined], normalizeOptions(opts), memo)

(***************************************************************************)
(* The arguments of the calls.  A query is bounded by its weight: one for  *)
(* each array and object, one or two for each primitive and each key, so   *)
(* that the plain queries of the bound are wider and deeper than the       *)
(* others.                                                                 *)
(***************************************************************************)
\* The keys of the objects of a query.  PlainKeys: plain, with an empty
\* target, empty after the optional mark, aliased.  OtherKeys: optional,
\* built-in, aliased to a built-in name and to __proto__, no valid key, and
\* the parameters.
PlainKeys ==
    { <<"a">>,
      <<"a", "=", ">">>,
      <<"?">>,
      <<"b", "=", ">", "a">> }

OtherKeys ==
    { <<"a", "?">>,
      <<"c", "a", "l", "l">>,
      <<"b", "=", ">", "c", "a", "l", "l">>,
      <<"a", "=", ">">> \o KeyProto,
      <<"=", ">", "=", ">">>,
      KeyParams }

QueryKeys == PlainKeys \cup OtherKeys

Primitives == {Undefined, Null, JsTrue, JsFalse, JsNumber, JsString}

KeyWeight(k) == IF k \in PlainKeys THEN 1 ELSE 2
PrimitiveWeight(v) == IF v \in {JsTrue, Undefined} THEN 1 ELSE 2

\* With table[w] the set of the values of weight w, for every w up to n: the
\* sequences of values of weight n in all, and the sequences of entries of
\* weight n in all, of distinct keys not in used, in the order of
\* Object.entries.
RECURSIVE ValueSeqs(_, _)
ValueSeqs(table, n) ==
    IF n = 0 THEN {<<>>}
    ELSE UNION { { <<v>> \o rest : v \in table[w], rest \in ValueSeqs(table, n - w) } :
                 w \in 1..n }

RECURSIVE EntrySeqs(_, _, _)
EntrySeqs(table, n, used) ==
    IF n = 0 THEN {<<>>}
    ELSE UNION { UNION { { <<[key |-> k, value |-> v]>> \o rest :
                           v \in table[w],
                           rest \in EntrySeqs(table, n - KeyWeight(k) - w,
                                              used \cup {k}) } :
                         w \in 1..(n - KeyWeight(k)) } :
                 k \in QueryKeys \ used }

\* The values of weight n, given those of the smaller weights.
ValuesFrom(table, n) ==
    { v \in Primitives : PrimitiveWeight(v) = n }
    \cup { Arr(vs) : vs \in ValueSeqs(table, n - 1) }
    \cup { Obj(es) : es \in EntrySeqs(table, n - 1, {}) }

RECURSIVE ValueTableFrom(_, _)
ValueTableFrom(table, n) ==
    IF n > MaxWeight - 1 THEN table
    ELSE ValueTableFrom(Append(table, ValuesFrom(table, n)), n + 1)

\* ValueTable[w]: the values of weight w that a query of the bound holds.
ValueTable == ValueTableFrom(<<>>, 1)

\* The second argument of parseQuery; anything but the defaults weighs one.
DefaultOptions ==
    [ignoreKeys |-> Undefined, acceptKeys |-> Undefined,
     ignoreBuiltInKeys |-> Undefined]

Options ==
    { DefaultOptions,
      [ignoreKeys |-> Str(<<"a">>), acceptKeys |-> Undefined,
       ignoreBuiltInKeys |-> JsFalse],
      [ignoreKeys |-> Arr(<<Str(<<"b">>), RegExpPrefix(<<"a">>)>>),
       acceptKeys |-> Arr(<<Str(<<"a">>), RegExpPrefix(<<"c">>)>>),
       ignoreBuiltInKeys |-> JsTrue],
      [ignoreKeys |-> RegExpPrefix(<<>>),
       acceptKeys |-> Arr(<<RegExpPrefix(<<"c">>), Str(<<>>)>>),
       ignoreBuiltInKeys |-> JsFalse] }

OptionsWeight(o) == IF o = DefaultOptions THEN 0 ELSE 1

\* The arguments of the calls made besides the one under study.
OtherQueries == { Obj(<<[key |-> <<"a">>, value |-> JsTrue]>>), JsTrue }

\* The keys given to parseKey directly: every string of these characters.
KeyChars == {"a", "?", "=", ">"}
RECURSIVE KeysOfLen(_)
KeysOfLen(n) ==
    IF n = 0 THEN {<<>>}
    ELSE { Append(k, c) : k \in KeysOfLen(n - 1), c \in KeyChars }

Keys == UNION { KeysOfLen(n) : n \in 0..MaxKeyLen }

(***************************************************************************)
(* The parser: the module is loaded, and parseQuery is called.             *)
(***************************************************************************)
Outcome(r) ==
    IF r.t = "return" THEN [t |-> "return", value |-> r.value]
    ELSE [t |-> "throw", error |-> r.error]

\* q is a value of weight n: ValuesFrom(ValueTable, n), one element at a time.
InitQuery(n) ==
    \/ /\ query \in Primitives
       /\ PrimitiveWeight(query) = n
    \/ /\ n = 1
       /\ query \in {Arr(<<>>), Obj(<<>>)}
    \/ \E w \in 1..(n - 1) :
         \E v \in ValueTable[w], rest \in ValueSeqs(ValueTable, n - 1 - w) :
            query = Arr(<<v>> \o rest)
    \/ \E k \in QueryKeys :
         \E w \in 1..(n - 1 - KeyWeight(k)) :
            \E v \in ValueTable[w],
               rest \in EntrySeqs(ValueTable, n - 1 - KeyWeight(k) - w, {k}) :
               query = Obj(<<[key |-> k, value |-> v]>> \o rest)

Init ==
    /\ _builtInKeys = Undefined
    /\ options \in Options
    /\ \E n \in 1..(MaxWeight - OptionsWeight(options)) : InitQuery(n)
    /\ outcome = None
    /\ memoized = FALSE
    /\ key = <<>>
    /\ parsedKey = None

\* parseQuery(query, options)
Call ==
    LET r == parseQuery(query, options, _builtInKeys)
    IN  /\ outcome' = Outcome(r)
        /\ _builtInKeys' = r.memo
        /\ memoized' = (_builtInKeys # Undefined)
        /\ UNCHANGED <<query, options, key, parsedKey>>

\* A call of parseQuery with other arguments, before or after.
OtherCall ==
    \E q \in OtherQueries :
        /\ _builtInKeys' = parseQuery(q, DefaultOptions, _builtInKeys).memo
        /\ UNCHANGED <<query, options, outcome, memoized, key, parsedKey>>

Next == Call \/ OtherCall

Spec == Init /\ [][Next]_vars

(***************************************************************************)
(* parseKey alone, on every key of the bound.                              *)
(***************************************************************************)
InitKey ==
    /\ _builtInKeys = Undefined
    /\ query = Undefined
    /\ options = Undefined
    /\ outcome = None
    /\ memoized = FALSE
    /\ key \in Keys
    /\ parsedKey = None

\* parseKey(key)
CallParseKey ==
    /\ parsedKey' = parseKey(key)
    /\ UNCHANGED <<_builtInKeys, query, options, outcome, memoized, key>>

NextKey == CallParseKey

SpecKey == InitKey /\ [][NextKey]_vars

(***************************************************************************)
(* What the claims speak of: the mapping levels of a query, their entries  *)
(* that are not skipped, and the nodes of a returned tree.                 *)
(***************************************************************************)
Normalized == normalizeOptions(options)
BuiltIns(o) == IF Truthy(o.ignoreBuiltInKeys) THEN computeBuiltInKeys ELSE <<>>

Returned == outcome.t = "return"
Thrown == outcome.t = "throw"

\* An array that is no one-element sequence; the value a query value stands
\* for once its one-element sequence is unwrapped; whether that is iterated
\* as a mapping.
BadArray(q) == IsArray(q) /\ Len(q.items) # 1
Body(q) == IF IsArray(q) /\ Len(q.items) = 1 THEN q.items[1] ELSE q
HasLevel(q) == ~BadArray(q) /\ Body(q).t \in {"object", "array"}

EntryKey(b, i) == ObjectEntries(b)[i].key
EntryValue(b, i) == ObjectEntries(b)[i].value
Source(b, i) == parseKey(EntryKey(b, i)).sourceKey
Target(b, i) == parseKey(EntryKey(b, i)).targetKey

\* The entries of the mapping b that are neither the parameters nor skipped.
Live(b, o) ==
    { i \in DOMAIN ObjectEntries(b) :
        /\ EntryKey(b, i) # KeyParams
        /\ parseKey(EntryKey(b, i)).t = "return"
        /\ ~skipEntry(Source(b, i), o, BuiltIns(o)) }

EmptyTargets(b, o) == { i \in Live(b, o) : Target(b, i) = <<>> }
NamedTargets(b, o) == { i \in Live(b, o) : Target(b, i) # <<>> }

\* The last entry of b, among those of is, that has the target of entry i.
IsLastOf(b, is, i) == \A j \in is : Target(b, j) = Target(b, i) => j <= i

\* The query values of q: q, and the values of the entries that are not
\* skipped, at every depth.
RECURSIVE Reached(_, _)
Reached(q, o) ==
    {q} \cup
    IF HasLevel(q)
    THEN UNION { Reached(EntryValue(Body(q), i), o) : i \in Live(Body(q), o) }
    ELSE {}

\* The mapping levels of q.
Levels(q, o) == { Body(v) : v \in { r \in Reached(q, o) : HasLevel(r) } }

\* nested[k], where nested is the nestedExpressions of a node.
Get(nested, k) ==
    IF nested = Undefined THEN Undefined
    ELSE IF k = KeyProto THEN nested.proto
    ELSE IF k \in DOMAIN nested.props THEN nested.props[k]
    ELSE Undefined

IsExpression(v) == v.t = "expression"

\* The expressions that nested holds.
Held(nested) ==
    IF nested = Undefined THEN {}
    ELSE { nested.props[k] : k \in DOMAIN nested.props }
         \cup (IF IsExpression(nested.proto) THEN {nested.proto} ELSE {})

\* The nodes of the tree e.
RECURSIVE Nodes(_)
Nodes(e) ==
    {e}
    \cup (IF IsExpression(e.nextExpression) THEN Nodes(e.nextExpression) ELSE {})
    \cup UNION { Nodes(c) : c \in Held(e.nestedExpressions) }

\* What the node e holds for the target k.
Slot(e, k) == IF k = <<>> THEN e.nextExpression ELSE Get(e.nestedExpressions, k)

\* The nodes of the tree e returned for the query value q under the source
\* key s, each with the query value it was built from and the source key of
\* its own key: the child for a target is that of the last entry of that
\* target.
RECURSIVE Pairs(_, _, _, _)
Pairs(e, q, s, o) ==
    {[node |-> e, raw |-> q, sourceKey |-> s]} \cup
    IF ~HasLevel(q) THEN {}
    ELSE LET b == Body(q)
         IN  UNION { IF IsExpression(Slot(e, Target(b, i)))
                     THEN Pairs(Slot(e, Target(b, i)), EntryValue(b, i), Source(b, i), o)
                     ELSE {} :
                     i \in { j \in Live(b, o) : IsLastOf(b, Live(b, o), j) } }

ReturnedPairs ==
    IF Returned THEN Pairs(outcome.value, query, <<>>, Normalized) ELSE {}

(***************************************************************************)
(* C1.  No node of a returned tree has both nextExpression and             *)
(* nestedExpressions, and a query with a level whose entries that are not  *)
(* skipped have an empty target and a non-empty one is not parsed: the     *)
(* call throws.                                                            *)
(***************************************************************************)
MixedLevel(b, o) == EmptyTargets(b, o) # {} /\ NamedTargets(b, o) # {}

NeverBothTargets ==
    /\ Returned =>
         \A n \in Nodes(outcome.value) :
            n.nextExpression = Undefined \/ n.nestedExpressions = Undefined
    /\ (outcome # None /\ \E b \in Levels(query, Normalized) : MixedLevel(b, Normalized))
         => Thrown

\* The call threw on a level with both kinds of target.
ConflictThrown ==
    /\ Thrown
    /\ outcome.error = ConflictingTargets
    /\ \E b \in Levels(query, Normalized) : MixedLevel(b, Normalized)

(***************************************************************************)
(* C2.  As claimed: a query with a level of two or more entries that are   *)
(* not skipped and have an empty target makes parseQuery throw the         *)
(* 'multiple empty targets' error.                                         *)
(***************************************************************************)
TwoEmptyTargets(b, o) == Cardinality(EmptyTargets(b, o)) >= 2

MultipleEmptyTargetsAlwaysThrown ==
    (outcome # None /\ \E b \in Levels(query, Normalized) : TwoEmptyTargets(b, Normalized))
      => (Thrown /\ outcome.error = MultipleEmptyTargets)

\* A query value that _parseQuery accepts as far as its own shape goes, and
\* a level all of whose keys parseKey accepts.
ValidValue(q) == q # Undefined /\ ~BadArray(q) /\ (Body(q) = JsTrue \/ HasLevel(q))
ValidKeys(b) ==
    \A i \in DOMAIN ObjectEntries(b) :
        EntryKey(b, i) = KeyParams \/ parseKey(EntryKey(b, i)).t = "return"

\* Nothing in the query but a level of two empty targets makes the call throw.
NoOtherDefect(q, o) ==
    /\ \A v \in Reached(q, o) : ValidValue(v)
    /\ \A b \in Levels(q, o) :
          /\ ValidKeys(b)
          /\ MixedLevel(b, o) => TwoEmptyTargets(b, o)

(***************************************************************************)
(* C2, amended.  Such a query makes parseQuery throw, and the error is the *)
(* 'multiple empty targets' one unless another error comes first: it is    *)
(* whenever the query has no other defect, and it is raised for no other   *)
(* query.  In a returned tree a node has a nextExpression exactly when its *)
(* level has one entry of empty target, and it is the child of that entry. *)
(***************************************************************************)
MultipleEmptyTargetsThrown ==
    /\ (outcome # None /\ \E b \in Levels(query, Normalized) : TwoEmptyTargets(b, Normalized))
         => Thrown
    /\ (Thrown /\ outcome.error = MultipleEmptyTargets)
         => \E b \in Levels(query, Normalized) : TwoEmptyTargets(b, Normalized)
    /\ (Thrown /\ NoOtherDefect(query, Normalized)
          /\ \E b \in Levels(query, Normalized) : TwoEmptyTargets(b, Normalized))
         => outcome.error = MultipleEmptyTargets
    /\ \A p \in ReturnedPairs :
          LET es == IF HasLevel(p.raw) THEN EmptyTargets(Body(p.raw), Normalized) ELSE {}
          IN  /\ Cardinality(es) <= 1
              /\ (p.node.nextExpression # Undefined) <=> (es # {})
              /\ \A i \in es :
                    /\ IsExpression(p.node.nextExpression)
                    /\ p.node.nextExpression.sourceKey = Source(Body(p.raw), i)
                    /\ [node |-> p.node.nextExpression,
                        raw |-> EntryValue(Body(p.raw), i),
                        sourceKey |-> Source(Body(p.raw), i)] \in ReturnedPairs

\* The call threw the error on a query with nothing else wrong.
MultipleEmptyTargetsSeen ==
    /\ Thrown
    /\ outcome.error = MultipleEmptyTargets
    /\ NoOtherDefect(query, Normalized)
    /\ \E b \in Levels(query, Normalized) : TwoEmptyTargets(b, Normalized)

(***************************************************************************)
(* C3.  As claimed: the arrays that the parser meets as a query value are  *)
(* the top-level query, the value of an entry that is not skipped, and the *)
(* single element of an enclosing array; parseQuery throws whenever one of *)
(* them has no or several elements.                                        *)
(***************************************************************************)
RECURSIVE QueryPositions(_, _)
QueryPositions(q, o) ==
    {q} \cup
    IF IsArray(q)
    THEN IF Len(q.items) = 1 THEN QueryPositions(q.items[1], o) ELSE {}
    ELSE IF q.t = "object"
    THEN UNION { QueryPositions(EntryValue(q, i), o) : i \in Live(q, o) }
    ELSE {}

OnlyOneElementArrays ==
    (outcome # None /\ \E v \in QueryPositions(query, Normalized) : BadArray(v))
      => Thrown

(***************************************************************************)
(* C4.  parseQuery throws, and returns nothing, whenever the top-level     *)
(* query, the value of an entry that is not skipped, at any depth, or the  *)
(* element that the parser unwraps from a one-element array, is undefined, *)
(* false, null, a number or a string.                                      *)
(***************************************************************************)
NoQuery(v) == v.t \in {"undefined", "false", "null", "number", "string"}

InvalidValuesThrow ==
    (outcome # None /\ \E v \in Reached(query, Normalized) : NoQuery(v) \/ NoQuery(Body(v)))
      => (Thrown /\ DOMAIN outcome = {"t", "error"})

\* The call threw on a query whose only defect is a value that is no query,
\* under an entry of an entry.
InvalidValueDeepSeen ==
    /\ Thrown
    /\ HasLevel(query)
    /\ \E i \in Live(Body(query), Normalized) :
          LET v == EntryValue(Body(query), i)
          IN  /\ HasLevel(v)
              /\ \E j \in Live(Body(v), Normalized) : NoQuery(Body(EntryValue(Body(v), j)))
    /\ \A v \in Reached(query, Normalized) : ~BadArray(v)
    /\ \A b \in Levels(query, Normalized) :
          ValidKeys(b) /\ ~MixedLevel(b, Normalized) /\ ~TwoEmptyTargets(b, Normalized)

(***************************************************************************)
(* C5.  parseKey(key) throws when key holds "=>" twice or more.  Otherwise *)
(* the source part is key, or what precedes "=>"; sourceKey is the source  *)
(* part less one trailing '?', and isOptional is true exactly when the     *)
(* source part ends with '?'; targetKey is sourceKey when key holds no     *)
(* "=>", and else what follows "=>", as it is.                             *)
(***************************************************************************)
Arrows(k) == { i \in 1..(Len(k) - 1) : k[i] = "=" /\ k[i + 1] = ">" }
Mark(isOptional) == IF isOptional = JsTrue THEN <<"?">> ELSE <<>>

ParseKeySplits ==
    parsedKey # None =>
      IF Cardinality(Arrows(key)) >= 2
      THEN parsedKey = [t |-> "throw", error |-> InvalidKey(key)]
      ELSE LET sourcePart == IF Arrows(key) = {} THEN key
                             ELSE SubSeq(key, 1, (CHOOSE i \in Arrows(key) : TRUE) - 1)
           IN  /\ parsedKey.t = "return"
               /\ parsedKey.isOptional \in {JsTrue, Undefined}
               /\ parsedKey.isOptional = JsTrue
                    <=> (sourcePart # <<>> /\ sourcePart[Len(sourcePart)] = "?")
               /\ sourcePart = parsedKey.sourceKey \o Mark(parsedKey.isOptional)
               /\ IF Arrows(key) = {}
                  THEN parsedKey.targetKey = parsedKey.sourceKey
                  ELSE key = sourcePart \o <<"=", ">">> \o parsedKey.targetKey

\* parseKey("??=>"), parseKey("?=>?"), ...: an optional source part and a
\* target that differs from the source key.
OptionalAliasParsed ==
    /\ parsedKey # None
    /\ parsedKey.t = "return"
    /\ parsedKey.isOptional = JsTrue
    /\ parsedKey.targetKey = <<"?">>
    /\ parsedKey.sourceKey # parsedKey.targetKey

(***************************************************************************)
(* C6.  An entry whose key is not "()" is skipped exactly when             *)
(* ignoreBuiltInKeys is true and its source key is a built-in key, or its  *)
(* source key matches a matcher of ignoreKeys and none of acceptKeys.      *)
(* Seen from outside: the call returns exactly when the query has no       *)
(* defect outside the entries so skipped, and each node of the tree holds  *)
(* a child for the targets of the other entries of its level, of their     *)
(* source keys, and for nothing else.                                      *)
(***************************************************************************)
Range(seq) == { seq[i] : i \in DOMAIN seq }

\* The built-in keys: the property names of the host objects but name and
\* length.
BuiltInNames ==
    (Range(ObjectPrototypeNames) \cup Range(FunctionPrototypeNames)
       \cup Range(FunctionOwnNames) \cup Range(ClassPrototypeNames))
    \ {KeyName, KeyLength}

\* The matchers of an option as the caller gave it, and what one matches.
Matchers(option) ==
    IF option = Undefined THEN {}
    ELSE IF IsArray(option) THEN Range(option.items)
    ELSE {option}

Matches(matcher, k) ==
    IF matcher.t = "string" THEN matcher.chars = k
    ELSE \E n \in 0..Len(k) : SubSeq(k, 1, n) = matcher.prefix

ClaimedSkip(sourceKey) ==
    \/ options.ignoreBuiltInKeys \in {Undefined, JsTrue} /\ sourceKey \in BuiltInNames
    \/ /\ \E m \in Matchers(options.ignoreKeys) : Matches(m, sourceKey)
       /\ ~\E m \in Matchers(options.acceptKeys) : Matches(m, sourceKey)

ClaimedLive(b) ==
    { i \in DOMAIN ObjectEntries(b) :
        /\ EntryKey(b, i) # KeyParams
        /\ parseKey(EntryKey(b, i)).t = "return"
        /\ ~ClaimedSkip(Source(b, i)) }

RECURSIVE ClaimedReached(_)
ClaimedReached(q) ==
    {q} \cup
    IF HasLevel(q)
    THEN UNION { ClaimedReached(EntryValue(Body(q), i)) : i \in ClaimedLive(Body(q)) }
    ELSE {}

\* No value, key or level met outside the skipped entries makes the call throw.
ClaimedSound(q) ==
    \A v \in ClaimedReached(q) :
        /\ ValidValue(v)
        /\ HasLevel(v) =>
             /\ ValidKeys(Body(v))
             /\ \A i, j \in ClaimedLive(Body(v)) :
                   (Target(Body(v), i) = <<>>) = (Target(Body(v), j) = <<>>)
             /\ Cardinality({ i \in ClaimedLive(Body(v)) : Target(Body(v), i) = <<>> }) <= 1

\* The targets for which the node e holds a child.
HeldTargets(e) ==
    (IF e.nextExpression # Undefined THEN {<<>>} ELSE {})
    \cup (IF e.nestedExpressions = Undefined THEN {}
          ELSE DOMAIN e.nestedExpressions.props
               \cup (IF IsExpression(e.nestedExpressions.proto) THEN {KeyProto} ELSE {}))

RECURSIVE KeptAsClaimed(_, _)
KeptAsClaimed(e, q) ==
    HasLevel(q) =>
      LET b == Body(q)
          live == ClaimedLive(b)
      IN  /\ HeldTargets(e) = { Target(b, i) : i \in live }
          /\ \A i \in live :
                IsLastOf(b, live, i) =>
                  /\ IsExpression(Slot(e, Target(b, i)))
                  /\ Slot(e, Target(b, i)).sourceKey = Source(b, i)
                  /\ KeptAsClaimed(Slot(e, Target(b, i)), EntryValue(b, i))

SkippedAsClaimed ==
    outcome # None =>
      /\ Returned <=> ClaimedSound(query)
      /\ Returned => KeptAsClaimed(outcome.value, query)

\* A level with an entry that ignoreKeys matches and acceptKeys does not,
\* whose value is no query, and an entry that both match: the call returned.
AcceptOverIgnoreSeen ==
    /\ Returned
    /\ HasLevel(query)
    /\ \E i, j \in DOMAIN ObjectEntries(Body(query)) :
          LET b == Body(query)
          IN  /\ EntryKey(b, i) # KeyParams /\ EntryKey(b, j) # KeyParams
              /\ parseKey(EntryKey(b, i)).t = "return"
              /\ parseKey(EntryKey(b, j)).t = "return"
              /\ \E m \in Matchers(options.ignoreKeys) : Matches(m, Source(b, i))
              /\ ~\E m \in Matchers(options.acceptKeys) : Matches(m, Source(b, i))
              /\ ~ValidValue(EntryValue(b, i))
              /\ \E m \in Matchers(options.ignoreKeys) : Matches(m, Source(b, j))
              /\ \E m \in Matchers(options.acceptKeys) : Matches(m, Source(b, j))
              /\ Target(b, j) \in HeldTargets(outcome.value)

(***************************************************************************)
(* C7.  As claimed: in a returned tree, every entry that is neither the    *)
(* parameters nor skipped has its child in the node of its level, as the   *)
(* nextExpression or as an entry of nestedExpressions of its own.          *)
(***************************************************************************)
\* The child that the node e holds as its own for the target k.
OwnSlot(e, k) ==
    IF k = <<>> THEN e.nextExpression
    ELSE IF e.nestedExpressions # Undefined /\ k \in DOMAIN e.nestedExpressions.props
    THEN e.nestedExpressions.props[k]
    ELSE Undefined

\* c is the child made for entry i of the level b.
IsChildOf(c, b, i) ==
    /\ IsExpression(c)
    /\ c.sourceKey = Source(b, i)
    /\ c.isOptional = parseKey(EntryKey(b, i)).isOptional

TotalCoverage ==
    \A p \in ReturnedPairs :
        HasLevel(p.raw) =>
          LET b == Body(p.raw)
              live == Live(b, Normalized)
          IN  /\ \A i \in live : IsChildOf(OwnSlot(p.node, Target(b, i)), b, i)
              /\ Cardinality(HeldTargets(p.node)) = Cardinality(live)

(***************************************************************************)
(* C7, amended.  In a returned tree, the node of a level holds one child   *)
(* for each target of its entries that are neither the parameters nor      *)
(* skipped, and nothing else: the child of the last entry of that target,  *)
(* as the nextExpression for the empty target, as nestedExpressions[t] for *)
(* a target t, which is an entry of its own unless t is __proto__, when    *)
(* the child is the prototype of nestedExpressions.  An entry whose target *)
(* a later entry repeats is not in the tree.                               *)
(***************************************************************************)
CoverageOfLastTargets ==
    \A p \in ReturnedPairs :
        HasLevel(p.raw) =>
          LET b == Body(p.raw)
              live == Live(b, Normalized)
              last == { i \in live : IsLastOf(b, live, i) }
          IN  /\ HeldTargets(p.node) = { Target(b, i) : i \in live }
              /\ Cardinality(HeldTargets(p.node)) = Cardinality(last)
              /\ \A i \in last :
                    /\ IsChildOf(Slot(p.node, Target(b, i)), b, i)
                    /\ Target(b, i) # KeyProto
                         => OwnSlot(p.node, Target(b, i)) = Slot(p.node, Target(b, i))
                    /\ Target(b, i) = KeyProto
                         => /\ OwnSlot(p.node, KeyProto) = Undefined
                            /\ p.node.nestedExpressions.proto = Slot(p.node, KeyProto)
              /\ \A i \in live \ last :
                    \A c \in Held(p.node.nestedExpressions) \cup {p.node.nextExpression} :
                        ~IsChildOf(c, b, i)

\* parseQuery({a: true, 'b=>a': true}), ...: a returned tree whose root holds
\* one child for two entries of one target.
RepeatedTargetReturned ==
    /\ Returned
    /\ HasLevel(query)
    /\ \E i, j \in Live(Body(query), Normalized) :
          /\ i < j
          /\ Target(Body(query), i) = Target(Body(query), j)
          /\ Source(Body(query), i) # Source(Body(query), j)
    /\ Cardinality(HeldTargets(outcome.value)) = 1

(***************************************************************************)
(* C8.  Entries of one level that are not skipped and have the same        *)
(* non-empty target do not make parseQuery fail: a query with such entries *)
(* and no defect is parsed, nestedExpressions[target] is then the child of *)
(* the last of them, and a value of an earlier one that is not parsed      *)
(* makes the call throw.                                                   *)
(***************************************************************************)
RepeatedTargets(b, o) ==
    { i \in NamedTargets(b, o) : \E j \in NamedTargets(b, o) : j > i /\ Target(b, j) = Target(b, i) }

\* What _parseQuery does of the value of entry i of the level b.
ParsedEntry(b, i, o) ==
    _parseQuery(EntryValue(b, i),
                [sourceKey |-> Source(b, i), isOptional |-> parseKey(EntryKey(b, i)).isOptional],
                o, Undefined)

Sound(q, o) ==
    /\ \A v \in Reached(q, o) : ValidValue(v)
    /\ \A b \in Levels(q, o) :
          ValidKeys(b) /\ ~MixedLevel(b, o) /\ ~TwoEmptyTargets(b, o)

LastOfRepeatedTargetWins ==
    /\ (outcome # None /\ Sound(query, Normalized)
          /\ \E b \in Levels(query, Normalized) : RepeatedTargets(b, Normalized) # {})
         => Returned
    /\ \A p \in ReturnedPairs :
          HasLevel(p.raw) =>
            LET b == Body(p.raw)
                named == NamedTargets(b, Normalized)
            IN  \A i \in named \ RepeatedTargets(b, Normalized) :
                    Get(p.node.nestedExpressions, Target(b, i))
                      = ParsedEntry(b, i, Normalized).value
    /\ (outcome # None
          /\ \E b \in Levels(query, Normalized) :
                \E i \in RepeatedTargets(b, Normalized) :
                    ParsedEntry(b, i, Normalized).t = "throw")
         => Thrown

\* parseQuery({a: [true], 'b=>a': true}), ...: the tree holds the child of
\* the second entry, which the first would not have made.
LastChildHeld ==
    /\ Returned
    /\ HasLevel(query)
    /\ \E i \in RepeatedTargets(Body(query), Normalized) :
          LET b == Body(query)
              t == Target(b, i)
          IN  /\ Get(outcome.value.nestedExpressions, t) # ParsedEntry(b, i, Normalized).value
              /\ \E j \in NamedTargets(b, Normalized) :
                    /\ j > i
                    /\ Target(b, j) = t
                    /\ Get(outcome.value.nestedExpressions, t)
                         = ParsedEntry(b, j, Normalized).value

CollectionElementsAndLeaves ==
    /\ Returned => Nodes(outcome.value) = { p.node : p \in ReturnedPairs }
    /\ \A p \in ReturnedPairs :
          /\ p.node.useCollectionElements \in {JsTrue, Undefined}
          /\ p.node.useCollectionElements = JsTrue
               <=> (IsArray(p.raw) /\ Len(p.raw.items) = 1)
          /\ Body(p.raw) = JsTrue =>
               /\ p.node.params = Undefined
               /\ p.node.nextExpression = Undefined
               /\ p.node.nestedExpressions = Undefined
               /\ p.node.sourceKey = p.sourceKey

\* parseQuery({'a?': [true]}), ...: a leaf under the root, of a one-element
\* array, beside a leaf of true or alone.
CollectionLeafSeen ==
    /\ Returned
    /\ \E p \in ReturnedPairs :
          /\ p.node # outcome.value
          /\ p.raw = Arr(<<JsTrue>>)
          /\ p.sourceKey # <<>>
          /\ p.node.useCollectionElements = JsTrue
    /\ outcome.value.useCollectionElements = Undefined

(***************************************************************************)
(* C11.  At every level, the entry of key "()" gives the node its params:  *)
(* the value of the entry as it is, whatever it is and whatever the        *)
(* options ignore.  The entry makes no child and counts for no target:     *)
(* but for the params, the call does what it does of the query without     *)
(* its "()" entries.  A node of a level without that key has no params.    *)
(***************************************************************************)
NotParams(entry) == entry.key # KeyParams

\* The query q without its entries of key "()", at every depth.
RECURSIVE StripParams(_)
StripParams(q) ==
    IF IsArray(q)
    THEN Arr([i \in DOMAIN q.items |-> StripParams(q.items[i])])
    ELSE IF q.t = "object"
    THEN LET kept == SelectSeq(q.entries, NotParams)
         IN  Obj([i \in DOMAIN kept |->
                    [key |-> kept[i].key, value |-> StripParams(kept[i].value)]])
    ELSE q

\* The tree e without the params of its nodes.
RECURSIVE EraseParams(_)
EraseParams(e) ==
    [e EXCEPT
       !.params = Undefined,
       !.nextExpression = IF IsExpression(@) THEN EraseParams(@) ELSE @,
       !.nestedExpressions =
          IF @ = Undefined THEN @
          ELSE [@ EXCEPT
                  !.props = [k \in DOMAIN @ |-> EraseParams(@[k])],
                  !.proto = IF IsExpression(@) THEN EraseParams(@) ELSE @]]

ParamsEntries(q) ==
    IF HasLevel(q)
    THEN { i \in DOMAIN ObjectEntries(Body(q)) : EntryKey(Body(q), i) = KeyParams }
    ELSE {}

ParamsVerbatim ==
    /\ \A p \in ReturnedPairs :
          /\ ParamsEntries(p.raw) = {} => p.node.params = Undefined
          /\ \A i \in ParamsEntries(p.raw) : p.node.params = EntryValue(Body(p.raw), i)
          /\ HasLevel(p.raw) =>
               HeldTargets(p.node)
                 = { Target(Body(p.raw), i) :
                       i \in Live(Body(p.raw), Normalized) \ ParamsEntries(p.raw) }
    /\ outcome # None =>
          LET stripped == Outcome(parseQuery(StripParams(query), options, Undefined))
          IN  IF Returned
              THEN stripped = [t |-> "return", value |-> EraseParams(outcome.value)]
              ELSE stripped = outcome

\* parseQuery({'()': null}, {ignoreKeys: /^/, ...}), ...: the options ignore
\* the key "()", its value is no query, and the root has it as its params.
IgnoredParamsKept ==
    /\ Returned
    /\ \E m \in Matchers(options.ignoreKeys) : Matches(m, KeyParams)
    /\ ~\E m \in Matchers(options.acceptKeys) : Matches(m, KeyParams)
    /\ \E i \in ParamsEntries(query) :
          /\ ~ValidValue(EntryValue(Body(query), i))
          /\ EntryValue(Body(query), i) # Undefined
          /\ outcome.value.params = EntryValue(Body(query), i)

=============================================================================
